---------------------------- MODULE Spec2Model ----------------------------
(***************************************************************************)
(* Model of the KeysightDSOX2000 repository.                               *)
(*                                                                         *)
(*  - scopeplot2002.pyw, the batch CSV plotter: a file dialog, a loop      *)
(*    that loads each selected file with numpy.genfromtxt, shifts the      *)
(*    time column by its nanmin, draws one matplotlib figure per file,     *)
(*    sets rcParams["savefig.directory"], and a final plt.show().          *)
(*  - the waveform binary-block decode behind get_trace (README); its      *)
(*    code is not part of the sources at hand and is modelled from the     *)
(*    design document.                                                     *)
(*                                                                         *)
(* Conventions.  A path is a sequence of code points (wx returns unicode   *)
(* strings under Python 2, the interpreter the script's xrange needs).     *)
(* A number is a record: Num(v) for a float holding the integer v (times   *)
(* and voltages are fixed-point integers here, so subtraction is exact)    *)
(* and NaN for not-a-number.  os.path is posixpath.                        *)
(***************************************************************************)
EXTENDS Integers, Sequences, FiniteSets, TLC

VARIABLES
    pc,        \* position of the script: "dialog", "load", "plot", "show",
               \* "shown", "done", "exited" (sys.exit), "raised"; "decode"
               \* where the model is of the decoder
    fpaths,    \* dlg.GetPaths(): the selected paths, in selection order
    disk,      \* disk[k]: what the file fpaths[k] holds (the script never writes it)
    ii,        \* the loop variable (0-based, as in the script)
    data,      \* the array returned by np.genfromtxt for the current file
    t,         \* the shifted time column of the current file
    figs,      \* pyplot's figure manager: figure number -> figure
    savedir,   \* mpl.rcParams["savefig.directory"]
    opened,    \* the paths handed to np.genfromtxt so far, in order
    displayed, \* the figure numbers plt.show() has put on screen
    err,       \* the uncaught exception, if any
    status,    \* the process exit status; -1 while the script runs
    sent,      \* decoder: what the instrument put in the reply, part by part
    block,     \* decoder: the raw binary block of the request
    meta,      \* decoder: the metadata record and the sample format
    result     \* decoder: outcome of the decode

vars == <<pc, fpaths, disk, ii, data, t, figs, savedir, opened, displayed, err,
          status, sent, block, meta, result>>

plotVars == <<pc, fpaths, disk, ii, data, t, figs, savedir, opened, displayed,
              err, status>>
decVars == <<sent, block, meta, result>>

(***************************************************************************)
(* Bounds of the model.                                                    *)
(***************************************************************************)
MaxFiles == 2      \* files in one selection (batch specification)
MaxRows == 2       \* data rows of a generated file
MaxCols == 2       \* cells in a row of a generated file
MaxT == 2          \* time values of generated files are 0..MaxT
MaxPayload == 2    \* payload bytes of a generated binary block

(***************************************************************************)
(* Code points used in paths.                                              *)
(***************************************************************************)
Slash == 47        \* "/", posixpath.sep
Dot == 46          \* ".", posixpath.extsep
Tilde == 126       \* "~"
ChA == 97          \* "a"
ChB == 98          \* "b"
ChC == 99          \* "c"
ChD == 100         \* "d"
ChE == 101         \* "e"
ChEacute == 233    \* U+00E9, outside ASCII
AsciiLimit == 128  \* the ascii codec encodes code points below 128

(***************************************************************************)
(* Numbers and not-a-number.                                               *)
(***************************************************************************)
NaN == [nan |-> TRUE, v |-> 0]
Num(v) == [nan |-> FALSE, v |-> v]
\* float subtraction: anything minus NaN, or NaN minus anything, is NaN
Sub(a, b) == IF a.nan \/ b.nan THEN NaN ELSE Num(a.v - b.v)

\* np.nanmin over a one-dimensional array: the least of the values that are
\* not NaN; NaN (with a RuntimeWarning) when every value is NaN
NanminNoSkip(s) ==
    IF \E i \in 1..Len(s) : s[i].nan THEN NaN
    ELSE IF Len(s) = 0 THEN NaN
    ELSE LET vals == {s[i].v : i \in 1..Len(s)}
         IN Num(CHOOSE m \in vals : \A w \in vals : m <= w)
Nanmin(s) ==
    LET vals == {s[i].v : i \in {j \in 1..Len(s) : ~s[j].nan}}
    IN IF vals = {} THEN NaN
       ELSE Num(CHOOSE m \in vals : \A w \in vals : m <= w)

(***************************************************************************)
(* Cells of a CSV file, and the conversion genfromtxt applies to a cell.   *)
(***************************************************************************)
Lit(v) == [kind |-> "num", v |-> v]        \* a numeric literal
Empty == [kind |-> "empty", v |-> 0]       \* a missing value: ",,"
Text == [kind |-> "text", v |-> 0]         \* a cell that is not a number

\* the default float converter: a literal converts to its value, anything
\* else to NaN
Convert(cell) == IF cell.kind = "num" THEN Num(cell.v) ELSE NaN

Unreadable == [readable |-> FALSE, rows |-> <<>>]
Table(rows) == [readable |-> TRUE, rows |-> rows]

(***************************************************************************)
(* Exceptions.                                                             *)
(***************************************************************************)
NoError == [type |-> "none", line |-> 0, names_path |-> FALSE]
Raise(type, line, names) == [type |-> type, line |-> line, names_path |-> names]

(***************************************************************************)
(* np.genfromtxt(fname, delimiter=','), line 54.  The result is either an  *)
(* exception or an array [shape, rows]; the array is squeezed, so a single *)
(* row or a single column comes back one-dimensional and a single cell     *)
(* zero-dimensional.  The column count is that of the first row; a row     *)
(* with another count makes genfromtxt raise ValueError (invalid_raise).   *)
(***************************************************************************)
NoArray == [shape |-> <<>>, rows |-> <<>>]

ParseRows(rows) ==
    [i \in 1..Len(rows) |-> [j \in 1..Len(rows[i]) |-> Convert(rows[i][j])]]

SqueezeNever(nrows, ncols) == <<nrows, ncols>>
Squeeze(nrows, ncols) ==
    IF nrows = 0 THEN <<0>>
    ELSE IF nrows = 1 /\ ncols = 1 THEN <<>>
    ELSE IF nrows = 1 THEN <<ncols>>
    ELSE IF ncols = 1 THEN <<nrows>>
    ELSE <<nrows, ncols>>

GenfromtxtSkipBad(content) ==
    IF ~content.readable
    THEN [err |-> NoError, arr |-> [shape |-> <<0>>, rows |-> <<>>]]
    ELSE LET rows == content.rows
             good == SelectSeq(rows, LAMBDA r : Len(r) = Len(rows[1]))
         IN [err |-> NoError,
             arr |-> [shape |-> Squeeze(Len(good),
                                        IF Len(good) = 0 THEN 0 ELSE Len(good[1])),
                      rows |-> ParseRows(good)]]
Genfromtxt(content) ==
    IF ~content.readable
    THEN [err |-> Raise("IOError", 54, TRUE), arr |-> NoArray]
    ELSE LET rows == content.rows
         IN IF rows = <<>>
            THEN [err |-> NoError, arr |-> [shape |-> <<0>>, rows |-> <<>>]]
            ELSE IF \E i \in 1..Len(rows) : Len(rows[i]) # Len(rows[1])
            THEN [err |-> Raise("ValueError", 54, FALSE), arr |-> NoArray]
            ELSE [err |-> NoError,
                  arr |-> [shape |-> Squeeze(Len(rows), Len(rows[1])),
                           rows |-> ParseRows(rows)]]

\* data[:, j] (0-based j) of a two-dimensional array
Column(arr, j) == [i \in 1..Len(arr.rows) |-> arr.rows[i][j + 1]]

\* t - np.nanmin(t), line 56
ShiftTimeFirst(col) == [i \in 1..Len(col) |-> Sub(col[i], col[1])]
ShiftTime(col) == [i \in 1..Len(col) |-> Sub(col[i], Nanmin(col))]

(***************************************************************************)
(* posixpath.basename, posixpath.dirname, posixpath.splitext and str().    *)
(***************************************************************************)
\* p.rfind(ch) + 1: the last position of ch in p, 0 when there is none
RFind(p, ch) ==
    LET at == {i \in 1..Len(p) : p[i] = ch}
    IN IF at = {} THEN 0 ELSE CHOOSE i \in at : \A j \in at : j <= i

Basename(p) == SubSeq(p, RFind(p, Slash) + 1, Len(p))

RECURSIVE RStripSlash(_)
RStripSlash(p) ==
    IF p # <<>> /\ p[Len(p)] = Slash THEN RStripSlash(SubSeq(p, 1, Len(p) - 1))
    ELSE p

Dirname(p) ==
    LET head == SubSeq(p, 1, RFind(p, Slash))
    IN IF head # <<>> /\ \E i \in 1..Len(head) : head[i] # Slash
       THEN RStripSlash(head)
       ELSE head

\* genericpath._splitext: the extension starts at the last dot of the last
\* component, unless only dots precede it there
Splitext(p) ==
    LET sepIndex == RFind(p, Slash)
        dotIndex == RFind(p, Dot)
    IN IF dotIndex > sepIndex
          /\ \E k \in (sepIndex + 1)..(dotIndex - 1) : p[k] # Dot
       THEN <<SubSeq(p, 1, dotIndex - 1), SubSeq(p, dotIndex, Len(p))>>
       ELSE <<p, <<>>>>

\* str(u): the ascii codec; UnicodeEncodeError on a code point >= 128
Str(p) ==
    IF \A i \in 1..Len(p) : p[i] < AsciiLimit
    THEN [ok |-> TRUE, s |-> p]
    ELSE [ok |-> FALSE, s |-> <<>>]


(***************************************************************************)
(* pyplot.  plt.figure(num) makes the figure numbered num, or returns the  *)
(* one that exists; plt.plot(x, Y) with a two-dimensional Y adds one line  *)
(* per column of Y.                                                        *)
(***************************************************************************)
NewFigure == [window_title |-> <<>>, title |-> <<>>, xlabel |-> "", ylabel |-> "",
              lines |-> <<>>, scilimits |-> <<>>]

Figure(fm, num) == IF num \in DOMAIN fm THEN fm ELSE fm @@ (num :> NewFigure)

\* plt.plot(t, data[:,1:], lw=1), line 62
PlotLines(x, arr) ==
    [j \in 1..(arr.shape[2] - 1) |-> [x |-> x, y |-> Column(arr, j)]]

(***************************************************************************)
(* The files the model selects from.                                       *)
(***************************************************************************)
PathDA == <<Slash, ChD, Slash, ChA, Dot, ChC>>            \* /d/a.c
PathEA == <<Slash, ChE, Slash, ChA, Dot, ChC>>            \* /e/a.c
PathDotDir == <<Slash, ChD, Dot, ChE, Slash, ChB>>        \* /d.e/b
PathTwoExt == <<Slash, ChA, Dot, ChB, Dot, ChC>>          \* /a.b.c
PathHidden == <<Slash, ChD, Slash, Dot, ChC>>             \* /d/.c
PathAccent == <<Slash, ChD, Slash, ChEacute, Dot, ChC>>   \* /d/<U+00E9>.c

PathPool == {PathDA, PathEA, PathDotDir, PathTwoExt, PathHidden, PathAccent}
FilePaths == {PathDA, PathAccent}

FileRagged == Table(<<<<Lit(0), Lit(1)>>, <<Lit(1)>>>>)
FileOneRow == Table(<<<<Lit(0), Lit(1)>>>>)
FileTimeOnly == Table(<<<<Lit(0)>>, <<Lit(1)>>>>)
FileGood == Table(<<<<Lit(6), Lit(1), Lit(2)>>, <<Lit(5), Lit(3), Lit(4)>>,
                    <<Lit(7), Lit(5), Lit(6)>>>>)
FileWithNaN == Table(<<<<Text, Text>>, <<Lit(3), Lit(1)>>, <<Lit(2), Empty>>>>)
FileNaNTime == Table(<<<<Text, Lit(1)>>, <<Empty, Lit(2)>>>>)

SampleContents == {Unreadable, FileRagged, FileOneRow, FileTimeOnly, FileGood,
                   FileWithNaN, FileNaNTime}

\* every file of at most MaxRows rows of at most MaxCols cells each: the
\* first cell of a row is missing or a time in 0..MaxT, the others are text
\* or a number
TimeCells == {Empty} \cup {Lit(v) : v \in 0..MaxT}
VoltCells == {Text, Lit(5)}
RowsOfLen(c) ==
    {r \in [1..c -> TimeCells \cup VoltCells] :
        /\ r[1] \in TimeCells
        /\ \A j \in 2..c : r[j] \in VoltCells}
GenRows == UNION {RowsOfLen(c) : c \in 1..MaxCols}

Injective(s) == \A i, j \in 1..Len(s) : i # j => s[i] # s[j]

(***************************************************************************)
(* The state before the dialog opens.                                      *)
(***************************************************************************)
InitialSaveDir == <<Tilde>>      \* matplotlib's default savefig.directory
NoBlock == <<>>
NoMeta == [points |-> 0]
NoSent == [payload |-> <<>>]
NoResult == [state |-> "idle", error |-> "none", time |-> <<>>, voltage |-> <<>>]

InitPlot ==
    /\ pc = "dialog"
    /\ fpaths = <<>>
    /\ disk = <<>>
    /\ ii = -1
    /\ data = NoArray
    /\ t = <<>>
    /\ figs = <<>>
    /\ savedir = InitialSaveDir
    /\ opened = <<>>
    /\ displayed = {}
    /\ err = NoError
    /\ status = -1

Init ==
    /\ InitPlot
    /\ sent = NoSent
    /\ block = NoBlock
    /\ meta = NoMeta
    /\ result = NoResult

(***************************************************************************)
(* Lines 44-49: the dialog, and sys.exit() on an empty selection.          *)
(***************************************************************************)
AfterDialogNoExit(paths) == IF paths = <<>> THEN "show" ELSE "load"
AfterDialog(paths) == IF paths = <<>> THEN "exited" ELSE "load"

\* paths: what GetPaths returns; contents: what those files hold
OpenFileDialog(paths, contents) ==
    /\ pc = "dialog"
    /\ fpaths' = paths
    /\ disk' = contents
    /\ pc' = AfterDialog(paths)
    /\ status' = IF AfterDialog(paths) = "exited" THEN 0 ELSE status
    /\ ii' = IF AfterDialog(paths) = "load" THEN 0 ELSE ii
    /\ UNCHANGED <<data, t, figs, savedir, opened, displayed, err>>
    /\ UNCHANGED decVars

(***************************************************************************)
(* Lines 54-56: load the file, take column 0, shift it.                    *)
(***************************************************************************)
LoadFile ==
    /\ pc = "load"
    /\ LET r == Genfromtxt(disk[ii + 1])
       IN /\ opened' = Append(opened, fpaths[ii + 1])
          /\ IF r.err # NoError
             THEN /\ err' = r.err
                  /\ pc' = "raised"
                  /\ status' = 1
                  /\ UNCHANGED <<data, t>>
             ELSE /\ data' = r.arr
                  /\ IF Len(r.arr.shape) # 2
                     THEN \* data[:,0]: too many indices
                          /\ err' = Raise("IndexError", 55, FALSE)
                          /\ pc' = "raised"
                          /\ status' = 1
                          /\ UNCHANGED t
                     ELSE /\ t' = ShiftTime(Column(r.arr, 0))
                          /\ pc' = "plot"
                          /\ UNCHANGED <<err, status>>
    /\ UNCHANGED <<fpaths, disk, ii, figs, savedir, displayed>>
    /\ UNCHANGED decVars

(***************************************************************************)
(* Lines 59-67: the figure, its titles, the lines, the save directory; the *)
(* loop then moves to the next file or leaves for plt.show().              *)
(***************************************************************************)
NextPcShowEarly(i, n) == "show"
NextPc(i, n) == IF i + 1 < n THEN "load" ELSE "show"

SaveDirFirst(paths, i) == Dirname(paths[1])
SaveDir(paths, i) == Dirname(paths[i + 1])

PlotFile ==
    /\ pc = "plot"
    /\ LET fm == Figure(figs, ii)
           s == Str(fpaths[ii + 1])
       IN IF ~s.ok
          THEN \* line 60 raises with the figure of line 59 already made
               /\ figs' = fm
               /\ err' = Raise("UnicodeEncodeError", 60, FALSE)
               /\ pc' = "raised"
               /\ status' = 1
               /\ UNCHANGED <<ii, savedir>>
          ELSE LET fname == Splitext(Basename(s.s))[1]
               IN /\ figs' = [fm EXCEPT ![ii] =
                                [window_title |-> fname,
                                 title |-> fname,
                                 xlabel |-> "Time (s)",
                                 ylabel |-> "Voltage (V)",
                                 lines |-> fm[ii].lines \o PlotLines(t, data),
                                 scilimits |-> <<-2, 2>>]]
                  /\ savedir' = SaveDir(fpaths, ii)
                  /\ pc' = NextPc(ii, Len(fpaths))
                  /\ ii' = IF NextPc(ii, Len(fpaths)) = "load" THEN ii + 1 ELSE ii
                  /\ UNCHANGED <<err, status>>
    /\ UNCHANGED <<fpaths, disk, data, t, opened, displayed>>
    /\ UNCHANGED decVars

(***************************************************************************)
(* Line 69: plt.show() puts every figure on screen and blocks; when the    *)
(* windows are closed the script ends.                                     *)
(***************************************************************************)
Show ==
    /\ pc = "show"
    /\ displayed' = DOMAIN figs
    /\ pc' = "shown"
    /\ UNCHANGED <<fpaths, disk, ii, data, t, figs, savedir, opened, err, status>>
    /\ UNCHANGED decVars

Finish ==
    /\ pc = "shown"
    /\ pc' = "done"
    /\ status' = 0
    /\ UNCHANGED <<fpaths, disk, ii, data, t, figs, savedir, opened, displayed, err>>
    /\ UNCHANGED decVars

(***************************************************************************)
(* Specifications of the plotter: a batch of up to MaxFiles sample files,  *)
(* and one generated file.                                                 *)
(***************************************************************************)
\* the user selects up to MaxFiles distinct paths of PathPool, each holding
\* one of the sample contents
SelectBatch ==
    /\ pc = "dialog"
    /\ \E n \in 0..MaxFiles :
        \E ps \in [1..n -> PathPool] :
            /\ Injective(ps)
            /\ \E cs \in [1..n -> SampleContents] : OpenFileDialog(ps, cs)

\* the user selects one file, unreadable or holding a generated table
SelectFile ==
    /\ pc = "dialog"
    /\ \E p \in FilePaths :
        \/ OpenFileDialog(<<p>>, <<Unreadable>>)
        \/ \E n \in 0..MaxRows :
               \E rows \in [1..n -> GenRows] : OpenFileDialog(<<p>>, <<Table(rows)>>)

Next ==
    \/ SelectBatch
    \/ LoadFile
    \/ PlotFile
    \/ Show
    \/ Finish

Spec == Init /\ [][Next]_vars

NextFile ==
    \/ SelectFile
    \/ LoadFile
    \/ PlotFile
    \/ Show
    \/ Finish

SpecFile == Init /\ [][NextFile]_vars


(***************************************************************************)
(* The waveform binary-block decode.  A reply is "#", one digit n, n       *)
(* digits giving the payload length in bytes, the payload, and the         *)
(* transport's terminator when it appends one.  The metadata record holds  *)
(* the point count and the calibration (x/y increment, origin and          *)
(* reference); the sample width, signedness, byte order and the            *)
(* terminator are supplied with it.                                        *)
(***************************************************************************)
Hash == 35         \* "#"
Zero == 48         \* "0"
Nine == 57         \* "9"
Dollar == 36       \* "$", not a block marker
LF == 10           \* the terminator

IsDigit(b) == Zero <= b /\ b <= Nine

\* the integer a sequence of ASCII digits writes
RECURSIVE DigitsValue(_)
DigitsValue(ds) ==
    IF ds = <<>> THEN 0
    ELSE 10 * DigitsValue(SubSeq(ds, 1, Len(ds) - 1)) + (ds[Len(ds)] - Zero)

Malformed == [state |-> "error", error |-> "MalformedBlockError",
              time |-> <<>>, voltage |-> <<>>]

\* one sample of the payload: `width` bytes from position `at`, in the given
\* byte order, two's complement when signed
Sample(payload, at, m) ==
    LET u == IF m.width = 1 THEN payload[at]
             ELSE IF m.big_endian THEN 256 * payload[at] + payload[at + 1]
             ELSE payload[at] + 256 * payload[at + 1]
        half == IF m.width = 1 THEN 128 ELSE 32768
    IN IF m.signed /\ u >= half THEN u - 2 * half ELSE u

\* the payload length the header declares agrees with the bytes that follow it
LengthAgreesAtLeast(declared, available) == available >= declared
LengthAgrees(declared, available) == available = declared

\* the payload holds the declared number of whole samples
CountAgreesAlways(nbytes, m) == nbytes % m.width = 0
CountAgrees(nbytes, m) == nbytes % m.width = 0 /\ nbytes \div m.width = m.points

DecodeBlock(b, m) ==
    IF ~(Len(b) >= 1 /\ b[1] = Hash) THEN Malformed
    ELSE IF ~(Len(b) >= 2 /\ IsDigit(b[2]) /\ b[2] # Zero) THEN Malformed
    ELSE LET n == b[2] - Zero
         IN IF ~(Len(b) >= 2 + n /\ \A i \in 3..(2 + n) : IsDigit(b[i])) THEN Malformed
            ELSE LET declared == DigitsValue(SubSeq(b, 3, 2 + n))
                     rest == SubSeq(b, 3 + n, Len(b))
                     available == Len(rest) - (IF m.terminated THEN 1 ELSE 0)
                 IN IF ~LengthAgrees(declared, available) THEN Malformed
                    ELSE IF ~CountAgrees(declared, m) THEN Malformed
                    ELSE LET payload == SubSeq(rest, 1, declared)
                             count == declared \div m.width
                         IN [state |-> "ok",
                             error |-> "none",
                             time |-> [i \in 1..count |->
                                         ((i - 1) - m.x_reference) * m.x_increment
                                             + m.x_origin],
                             voltage |-> [i \in 1..count |->
                                         (Sample(payload, (i - 1) * m.width + 1, m)
                                             - m.y_reference) * m.y_increment
                                             + m.y_origin]]

(***************************************************************************)
(* Replies and metadata the decoder is given.                              *)
(***************************************************************************)
\* the n-digit, zero-padded decimal writing of v
RECURSIVE ToDigits(_, _)
ToDigits(v, n) ==
    IF n = 0 THEN <<>> ELSE Append(ToDigits(v \div 10, n - 1), Zero + (v % 10))

PayloadBytes == {LF, 20, 200}
Calibrations ==
    {[x_increment |-> 1, x_origin |-> 0, x_reference |-> 0,
      y_increment |-> 1, y_origin |-> 0, y_reference |-> 0],
     [x_increment |-> 2, x_origin |-> -3, x_reference |-> 1,
      y_increment |-> 3, y_origin |-> 1, y_reference |-> 128]}
Formats ==
    {[width |-> 1, signed |-> FALSE, big_endian |-> FALSE],
     [width |-> 1, signed |-> TRUE, big_endian |-> FALSE],
     [width |-> 2, signed |-> TRUE, big_endian |-> TRUE],
     [width |-> 2, signed |-> FALSE, big_endian |-> FALSE]}

\* the bytes of a reply whose parts are r
ReplyBytes(r) ==
    <<r.marker, r.count_byte>>
        \o (IF r.bad_digit /\ r.ndigits >= 1
            THEN [ToDigits(r.declared, r.ndigits) EXCEPT ![r.ndigits] = Dollar]
            ELSE ToDigits(r.declared, r.ndigits))
        \o r.payload
        \o (IF r.terminated THEN <<LF>> ELSE <<>>)

InitDecode ==
    /\ pc = "decode"
    /\ fpaths = <<>>
    /\ disk = <<>>
    /\ ii = -1
    /\ data = NoArray
    /\ t = <<>>
    /\ figs = <<>>
    /\ savedir = InitialSaveDir
    /\ opened = <<>>
    /\ displayed = {}
    /\ err = NoError
    /\ status = -1
    /\ result = NoResult
    /\ \E n \in 0..MaxPayload :
        \E payload \in [1..n -> PayloadBytes] :
        \E declared \in 0..(MaxPayload + 1), ndigits \in {1, 8}, term \in BOOLEAN,
           flaw \in {"none", "marker", "count", "digit"} :
            /\ sent = [marker |-> IF flaw = "marker" THEN Dollar ELSE Hash,
                       count_byte |-> IF flaw = "count" THEN Dollar ELSE Zero + ndigits,
                       ndigits |-> ndigits,
                       declared |-> declared,
                       bad_digit |-> flaw = "digit",
                       payload |-> payload,
                       terminated |-> term]
            /\ block = ReplyBytes(sent)
            /\ \E cal \in Calibrations, fmt \in Formats, points \in 0..MaxPayload :
                meta = [points |-> points,
                        x_increment |-> cal.x_increment,
                        x_origin |-> cal.x_origin,
                        x_reference |-> cal.x_reference,
                        y_increment |-> cal.y_increment,
                        y_origin |-> cal.y_origin,
                        y_reference |-> cal.y_reference,
                        width |-> fmt.width,
                        signed |-> fmt.signed,
                        big_endian |-> fmt.big_endian,
                        terminated |-> term]

\* one request: the reply is decoded, the outcome handed to the caller
Decode ==
    /\ pc = "decode"
    /\ result' = DecodeBlock(block, meta)
    /\ pc' = "decoded"
    /\ UNCHANGED <<sent, block, meta>>
    /\ UNCHANGED <<fpaths, disk, ii, data, t, figs, savedir, opened, displayed,
                   err, status>>

NextDecode == Decode

SpecDecode == InitDecode /\ [][NextDecode]_vars

(***************************************************************************)
(* Vocabulary of the properties, stated without the operators above.       *)
(***************************************************************************)
\* the number of files whose loop iteration has run to its end
Processed ==
    IF pc \in {"show", "shown", "done"} THEN Len(fpaths)
    ELSE IF pc \in {"load", "plot", "raised"} THEN ii
    ELSE 0

\* d is the directory the file p lies in (p absolute, without doubled slashes)
IsDirectoryOf(d, p) ==
    \/ /\ d = <<Slash>>
       /\ Len(p) > 1
       /\ p[1] = Slash
       /\ \A i \in 2..Len(p) : p[i] # Slash
    \/ /\ d # <<>>
       /\ d[Len(d)] # Slash
       /\ Len(p) > Len(d) + 1
       /\ SubSeq(p, 1, Len(d)) = d
       /\ p[Len(d) + 1] = Slash
       /\ \A i \in (Len(d) + 2)..Len(p) : p[i] # Slash

\* name is the base name of p with its extension stripped: p ends with
\* name followed by nothing or by one ".ext", right after a slash
IsStemOf(name, p) ==
    \E e \in 0..Len(p) :
        LET ext == SubSeq(p, Len(p) - e + 1, Len(p))
            from == Len(p) - e - Len(name)
        IN /\ from >= 1
           /\ p[from] = Slash
           /\ SubSeq(p, from + 1, Len(p) - e) = name
           /\ \A i \in 1..Len(name) : name[i] # Slash
           /\ \A i \in 1..e : ext[i] # Slash
           /\ \/ /\ e = 0
                 /\ \A i \in 1..Len(name) :
                        name[i] = Dot => \A j \in 1..i : name[j] = Dot
              \/ /\ e >= 1
                 /\ ext[1] = Dot
                 /\ \A i \in 2..e : ext[i] # Dot
                 /\ \E i \in 1..Len(name) : name[i] # Dot

\* the shape of what a file holds
Rectangular(c) ==
    c.readable /\ \A i \in 1..Len(c.rows) : Len(c.rows[i]) = Len(c.rows[1])
TwoDimensional(c) ==
    Rectangular(c) /\ Len(c.rows) >= 2 /\ Len(c.rows[1]) >= 2
OneDimensional(c) ==
    Rectangular(c) /\ Len(c.rows) >= 1 /\ (Len(c.rows) = 1 \/ Len(c.rows[1]) = 1)
CannotLoad(c) == ~c.readable \/ ~Rectangular(c)

\* the value a cell stands for
IsNumber(cell) == cell.kind = "num"
HasNumericTime(c) == \E i \in 1..Len(c.rows) : IsNumber(c.rows[i][1])
LeastTime(c) ==
    LET ts == {c.rows[i][1].v : i \in {k \in 1..Len(c.rows) : IsNumber(c.rows[k][1])}}
    IN CHOOSE m \in ts : \A w \in ts : m <= w

(***************************************************************************)
(* C1.  When the dialog returns an empty selection the script exits with   *)
(* status 0: no file is loaded, no figure is made or shown, the save       *)
(* directory keeps its initial value and no exception is raised.           *)
(***************************************************************************)
C1_CancelExitsCleanly ==
    (pc # "dialog" /\ fpaths = <<>>) =>
        /\ pc = "exited"
        /\ status = 0
        /\ opened = <<>>
        /\ DOMAIN figs = {}
        /\ displayed = {}
        /\ savedir = InitialSaveDir
        /\ err = NoError

C1_Witness == pc = "exited" /\ fpaths = <<>> /\ status = 0 /\ DOMAIN figs = {}

(***************************************************************************)
(* C2, as stated.  For every plotted file the plotted time column is       *)
(* column 0 minus its minimum, and the minimum of the plotted column is 0. *)
(***************************************************************************)
TimeColumnOf(c) == [i \in 1..Len(c.rows) |-> Convert(c.rows[i][1])]

C2_MinimumBecomesZero ==
    \A k \in DOMAIN figs : \A l \in 1..Len(figs[k].lines) :
        LET x == figs[k].lines[l].x
            col == TimeColumnOf(disk[k + 1])
        IN /\ Len(x) = Len(col)
           /\ \A i \in 1..Len(x) : x[i] = Sub(col[i], Nanmin(col))
           /\ Nanmin(x) = Num(0)

(***************************************************************************)
(* C2, amended.  For every plotted file the plotted time column has one    *)
(* entry per row; a row whose time is a number is plotted at that time     *)
(* minus the least numeric time of the file, so the numeric rows keep      *)
(* their differences, none is negative and one is 0; a row whose time is   *)
(* not a number is plotted at not-a-number (all rows, when no time of the  *)
(* file is a number).                                                      *)
(***************************************************************************)
C2_ShiftedTime ==
    \A k \in DOMAIN figs : \A l \in 1..Len(figs[k].lines) :
        LET x == figs[k].lines[l].x
            rows == disk[k + 1].rows
            numeric == {i \in 1..Len(rows) : IsNumber(rows[i][1])}
        IN /\ Len(x) = Len(rows)
           /\ \A i \in 1..Len(rows) : x[i].nan <=> i \notin numeric
           /\ \A i \in numeric : x[i].v >= 0
           /\ \A i, j \in numeric : x[i].v - x[j].v = rows[i][1].v - rows[j][1].v
           /\ numeric # {} => \E i \in numeric : x[i].v = 0

\* a plotted file whose first sample is not its earliest, and is moved
C2_Witness ==
    /\ pc = "done"
    /\ 0 \in DOMAIN figs
    /\ Len(figs[0].lines) >= 1
    /\ disk[1].rows[1][1] = Lit(2)
    /\ disk[1].rows[2][1] = Lit(1)
    /\ figs[0].lines[1].x = <<Num(1), Num(0)>>

(***************************************************************************)
(* C3.  After a run over n >= 1 selected files that all load, exactly n    *)
(* figures exist, the figure numbered k belonging to the file at position  *)
(* k: it is titled with that file's base name without its extension and    *)
(* holds one line per non-time column of the file, against the shifted     *)
(* time column.                                                            *)
(***************************************************************************)
RunEnded == pc \in {"shown", "done", "raised"}

C3_OneFigurePerFile ==
    (/\ RunEnded
     /\ Len(fpaths) >= 1
     /\ \A k \in 1..Len(fpaths) : TwoDimensional(disk[k])) =>
        /\ DOMAIN figs = 0..(Len(fpaths) - 1)
        /\ \A k \in 0..(Len(fpaths) - 1) :
            LET rows == disk[k + 1].rows
            IN /\ k \in DOMAIN figs
               /\ IsStemOf(figs[k].title, fpaths[k + 1])
               /\ Len(figs[k].lines) = Len(rows[1]) - 1
               /\ \A j \in 1..Len(figs[k].lines) :
                    /\ Len(figs[k].lines[j].y) = Len(rows)
                    /\ Len(figs[k].lines[j].x) = Len(rows)
                    /\ \A i \in 1..Len(rows) :
                        /\ figs[k].lines[j].y[i] = Convert(rows[i][j + 1])
                        /\ figs[k].lines[j].x[i] =
                               IF IsNumber(rows[i][1])
                               THEN Num(rows[i][1].v - LeastTime(disk[k + 1]))
                               ELSE NaN

(***************************************************************************)
(* C4.  Once a file has been processed, the default save directory is the  *)
(* directory of the most recently processed file; after the whole batch    *)
(* that is the last selected file.                                         *)
(***************************************************************************)
C4_SaveDirFollowsLastProcessed ==
    /\ Processed >= 1 => IsDirectoryOf(savedir, fpaths[Processed])
    /\ pc \in {"show", "shown", "done"} =>
           IsDirectoryOf(savedir, fpaths[Len(fpaths)])

\* a batch of two files in different directories, both processed
C4_Witness ==
    /\ pc = "done"
    /\ fpaths = <<PathDA, PathEA>>
    /\ savedir = <<Slash, ChE>>

(***************************************************************************)
(* C5, as stated.  A file that cannot be parsed makes the run fail with a  *)
(* FileLoadError that identifies the path, and the batch stops there.      *)
(***************************************************************************)
C5_FileLoadError ==
    \A k \in 1..Len(opened) :
        CannotLoad(disk[k]) =>
            /\ pc = "raised"
            /\ err.type = "FileLoadError"
            /\ err.names_path
            /\ Len(opened) = k

(***************************************************************************)
(* C5, amended.  A selected file that genfromtxt cannot load (unreadable,  *)
(* or rows of unequal column count) makes the run fail with genfromtxt's   *)
(* own uncaught exception: IOError, which names the path, for an           *)
(* unreadable file, ValueError, which does not, for unequal rows.  The     *)
(* batch stops at the first such file: it is not skipped, it gets no       *)
(* figure, and no later file is loaded, plotted or shown.                  *)
(***************************************************************************)
C5_LoaderErrorAborts ==
    \A k \in 1..Len(opened) :
        CannotLoad(disk[k]) =>
            /\ pc = "raised"
            /\ status = 1
            /\ err.line = 54
            /\ err.type = IF disk[k].readable THEN "ValueError" ELSE "IOError"
            /\ err.names_path <=> ~disk[k].readable
            /\ ii = k - 1
            /\ opened = SubSeq(fpaths, 1, k)
            /\ DOMAIN figs = 0..(k - 2)
            /\ displayed = {}

\* the first of two files has rows of unequal length; the second is never opened
C5_Witness ==
    /\ pc = "raised"
    /\ Len(fpaths) = 2
    /\ disk[1] = FileRagged
    /\ err.type = "ValueError"
    /\ opened = <<fpaths[1]>>

(***************************************************************************)
(* C6.  A cell that is missing or not a number becomes not-a-number and    *)
(* does not abort the file: a file of at least two rows and two columns    *)
(* with such cells loads, every other cell keeps its value, the time shift *)
(* is the least of the numeric times, and the file gets its figure.        *)
(***************************************************************************)
C6_NaNPlaceholders ==
    (/\ pc \notin {"dialog", "exited", "load"}
     /\ Len(opened) = ii + 1
     /\ TwoDimensional(disk[ii + 1])
     /\ \E i \in 1..Len(disk[ii + 1].rows) :
            \E j \in 1..Len(disk[ii + 1].rows[i]) : ~IsNumber(disk[ii + 1].rows[i][j])) =>
        LET rows == disk[ii + 1].rows
        IN /\ err.line \notin {54, 55}
           /\ Len(data.rows) = Len(rows)
           /\ \A i \in 1..Len(rows) :
                /\ Len(data.rows[i]) = Len(rows[i])
                /\ \A j \in 1..Len(rows[i]) :
                    data.rows[i][j] =
                        IF IsNumber(rows[i][j]) THEN Num(rows[i][j].v) ELSE NaN
           /\ Len(t) = Len(rows)
           /\ \A i \in 1..Len(rows) :
                t[i] = IF IsNumber(rows[i][1])
                       THEN Num(rows[i][1].v - LeastTime(disk[ii + 1]))
                       ELSE NaN
           /\ pc # "plot" => ii \in DOMAIN figs
           /\ pc \in {"show", "shown", "done"} =>
                \A l \in 1..Len(figs[ii].lines) :
                    /\ figs[ii].lines[l].x = t
                    /\ \A i \in 1..Len(rows) :
                        figs[ii].lines[l].y[i] =
                            IF IsNumber(rows[i][l + 1]) THEN Num(rows[i][l + 1].v) ELSE NaN

\* a row without a time above a numeric row: the shift is the numeric time
C6_Witness ==
    /\ pc = "done"
    /\ disk[1].rows = <<<<Empty, Text>>, <<Lit(2), Lit(5)>>>>
    /\ 0 \in DOMAIN figs
    /\ figs[0].lines = <<[x |-> <<NaN, Num(0)>>, y |-> <<NaN, Num(5)>>]>>

(***************************************************************************)
(* C9.  Files are loaded one at a time in selection order, each getting    *)
(* its figure before the next is opened, and figures are put on screen     *)
(* only after every selected file has been processed.  When the file at    *)
(* position k fails to load, nothing is ever shown, the figures are those  *)
(* of files 0..k-1, and the save directory is the directory of file k-1    *)
(* (its initial value when k = 0).                                         *)
(***************************************************************************)
C9_ShowAfterAllFiles ==
    /\ opened = SubSeq(fpaths, 1, Len(opened))
    /\ \A k \in 0..(Len(opened) - 2) : k \in DOMAIN figs /\ figs[k].lines # <<>>
    /\ (displayed # {} \/ pc \in {"shown", "done"}) =>
        /\ opened = fpaths
        /\ Processed = Len(fpaths)
        /\ displayed = DOMAIN figs
        /\ DOMAIN figs = 0..(Len(fpaths) - 1)
        /\ err = NoError
    /\ (pc = "raised" /\ err.line \in {54, 55}) =>
        /\ displayed = {}
        /\ DOMAIN figs = 0..(ii - 1)
        /\ Len(opened) = ii + 1
        /\ IF ii = 0 THEN savedir = InitialSaveDir
           ELSE IsDirectoryOf(savedir, fpaths[ii])

\* the second of two files fails to load after the first was plotted
C9_Witness ==
    /\ pc = "raised"
    /\ err.line = 54
    /\ ii = 1
    /\ fpaths[1] = PathDotDir
    /\ savedir = <<Slash, ChD, Dot, ChE>>
    /\ DOMAIN figs = {0}
    /\ displayed = {}

(***************************************************************************)
(* C10.  A file whose table is one-dimensional (one data row, or one       *)
(* column) is not plotted: taking its time column raises before a figure   *)
(* is made for it, the batch stops there and no later file is opened.      *)
(* Every figure belongs to a file of at least two rows and two columns.    *)
(***************************************************************************)
C10_OneDimensionalAborts ==
    /\ \A k \in 1..Len(opened) :
        OneDimensional(disk[k]) =>
            /\ pc = "raised"
            /\ err.type = "IndexError"
            /\ err.line = 55
            /\ ii = k - 1
            /\ Len(opened) = k
            /\ (k - 1) \notin DOMAIN figs
            /\ displayed = {}
    /\ \A k \in DOMAIN figs : TwoDimensional(disk[k + 1])

\* a time-only file first in a selection of two
C10_Witness ==
    /\ pc = "raised"
    /\ err.type = "IndexError"
    /\ Len(fpaths) = 2
    /\ disk[1] = FileTimeOnly
    /\ opened = <<fpaths[1]>>
    /\ DOMAIN figs = {}


(***************************************************************************)
(* C7.  A decode that returns a trace returns a time and a voltage         *)
(* sequence of the same length, the metadata's number_of_points, and a     *)
(* well-formed reply of number_of_points samples is decoded; when the      *)
(* number of samples in the payload differs from number_of_points the      *)
(* decode fails with MalformedBlockError and returns no trace.             *)
(***************************************************************************)
WellFormed(r) ==
    /\ r.marker = Hash
    /\ r.count_byte = Zero + r.ndigits
    /\ ~r.bad_digit
    /\ r.declared = Len(r.payload)

C7_LengthIsPointCount ==
    pc = "decoded" =>
        /\ result.state \in {"ok", "error"}
        /\ result.state = "ok" =>
            /\ Len(result.time) = meta.points
            /\ Len(result.voltage) = meta.points
            /\ result.error = "none"
        /\ (WellFormed(sent) /\ Len(sent.payload) = meta.points * meta.width) =>
            result.state = "ok"
        /\ Len(sent.payload) # meta.points * meta.width =>
            /\ result.state = "error"
            /\ result.error = "MalformedBlockError"
            /\ result.time = <<>>
            /\ result.voltage = <<>>

\* two 16-bit samples would need four bytes; one 16-bit sample is decoded
C7_Witness ==
    /\ pc = "decoded"
    /\ result.state = "ok"
    /\ meta.width = 2
    /\ meta.points = 1
    /\ Len(result.voltage) = 1
    /\ Len(sent.payload) = 2

(***************************************************************************)
(* C8.  A reply whose header declares a payload length other than the      *)
(* number of payload bytes it carries makes the decode fail with           *)
(* MalformedBlockError; no time/voltage pair is returned.                  *)
(***************************************************************************)
C8_LengthMismatchIsMalformed ==
    (pc = "decoded" /\ sent.declared # Len(sent.payload)) =>
        /\ result.state = "error"
        /\ result.error = "MalformedBlockError"
        /\ result.time = <<>>
        /\ result.voltage = <<>>

\* an intact header that declares one byte and carries two
C8_Witness ==
    /\ pc = "decoded"
    /\ sent.marker = Hash
    /\ sent.count_byte = Zero + sent.ndigits
    /\ ~sent.bad_digit
    /\ sent.declared = 1
    /\ Len(sent.payload) = 2
    /\ meta.points = 1
    /\ meta.width = 1
    /\ result.error = "MalformedBlockError"

=============================================================================
